---- MODULE Spec2Model ----
(***************************************************************************)
(* Model of the hono-my-router route-resolution engine: ParameterExtractor *)
(* (pattern conversion, matching through path-to-regexp, extraction,       *)
(* validation), RouteScanner (file name to route, classification) and      *)
(* Router (registration on the Hono app, refresh/rescan, dispatch).        *)
(*                                                                         *)
(* A string is a sequence of one-character strings, so that the regular    *)
(* expression replacements of the source are computed character by         *)
(* character.                                                              *)
(***************************************************************************)
EXTENDS Integers, Sequences, FiniteSets, TLC

VARIABLES
    call,               \* last call of a pure function: its inputs and outputs
    files,              \* route files present in the routes directory
    routesDirectoryExists, \* fs.existsSync(config.routesDirectory)
    registeredRoutes,   \* Router.registeredRoutes
    app,                \* Router.app: the routes added to the Hono instance
    stats,              \* Router.stats
    tasks,              \* the initialize()/refresh()/rescan() calls made so far
    manual,             \* number of addRoute()/removeRoute() calls made
    fsChanges,          \* number of changes made to the routes directory
    obs,                \* what getRoutes() returned, if it was the last call
    lastReq             \* the request the Hono app served last, if it was the
                        \* last call, and its outcome

vars == <<call, files, routesDirectoryExists, registeredRoutes, app, stats, tasks, manual, fsChanges, obs,
          lastReq>>

routerVars == <<files, routesDirectoryExists, registeredRoutes, app, stats, tasks, manual, fsChanges, obs,
                lastReq>>

-----------------------------------------------------------------------------
(* Bounds *)

MaxPatSegs == 2      \* segments in a route pattern given to the pure functions
MaxPathSegs == 3     \* segments in a request path given to the pure functions
MaxFiles == 3        \* route files present in the routes directory at once
MaxCalls == 2        \* initialize()/refresh()/rescan() calls
MaxManual == 1       \* addRoute()/removeRoute() calls
MaxFsChanges == 1    \* files created in or deleted from the routes directory
MaxRules == 2        \* entries of a validation configuration

-----------------------------------------------------------------------------
(* Strings *)

StartsWithAt(s, i, sub) ==
    /\ i >= 1
    /\ i + Len(sub) - 1 <= Len(s)
    /\ SubSeq(s, i, i + Len(sub) - 1) = sub

Includes(s, sub) == \E i \in 1..(Len(s) + 1) : StartsWithAt(s, i, sub)

EndsWith(s, sub) == StartsWithAt(s, Len(s) - Len(sub) + 1, sub)

RECURSIVE Flatten(_)
Flatten(ss) == IF ss = <<>> THEN <<>> ELSE Head(ss) \o Flatten(Tail(ss))

\* "/" \o seg1 \o "/" \o seg2 ...
RECURSIVE JoinPath(_)
JoinPath(segs) ==
    IF segs = <<>> THEN <<>> ELSE <<"/">> \o Head(segs) \o JoinPath(Tail(segs))

\* String.prototype.split('/')
RECURSIVE SplitSlash(_, _)
SplitSlash(s, cur) ==
    IF s = <<>> THEN <<cur>>
    ELSE IF Head(s) = "/" THEN <<cur>> \o SplitSlash(Tail(s), <<>>)
    ELSE SplitSlash(Tail(s), Append(cur, Head(s)))

\* .filter(Boolean) on an array of strings
FilterNonEmpty(ss) == SelectSeq(ss, LAMBDA x : x # <<>>)

\* position of the first "]" at or after i, 0 when there is none
FirstClose(s, i) ==
    IF \E j \in i..Len(s) : s[j] = "]"
    THEN CHOOSE j \in i..Len(s) : s[j] = "]" /\ \A k \in i..(j - 1) : s[k] # "]"
    ELSE 0

Lower(c) == IF c = "A" THEN "a" ELSE IF c = "B" THEN "b" ELSE c

LowerStr(s) == [i \in 1..Len(s) |-> Lower(s[i])]

-----------------------------------------------------------------------------
(* ParameterExtractor: normalisation and conversion of a route pattern *)

\* .replace(/\/+/g, '/')
RECURSIVE CollapseSlashes(_)
CollapseSlashes(s) ==
    IF s = <<>> THEN <<>>
    ELSE IF Len(s) >= 2 /\ s[1] = "/" /\ s[2] = "/" THEN CollapseSlashes(Tail(s))
    ELSE <<s[1]>> \o CollapseSlashes(Tail(s))

\* .replace(/\/$/, '')
StripTrailingSlash(s) ==
    IF Len(s) >= 1 /\ s[Len(s)] = "/" THEN SubSeq(s, 1, Len(s) - 1) ELSE s

\* .replace(/^\//, '/'): a leading "/" is replaced by "/", nothing is added
ReplaceLeadingSlash(s) ==
    IF Len(s) >= 1 /\ s[1] = "/" THEN <<"/">> \o Tail(s) ELSE s

normalizePath(path) ==
    ReplaceLeadingSlash(StripTrailingSlash(CollapseSlashes(path)))

\* .replace(/\/\*$/, '/:segments(.+)')
ReplaceTrailingStar(s) ==
    IF EndsWith(s, <<"/", "*">>)
    THEN SubSeq(s, 1, Len(s) - 2)
            \o <<"/", ":", "s", "e", "g", "m", "e", "n", "t", "s", "(", ".", "+", ")">>
    ELSE s

\* .replace(/\[\.\.\.([^\]]+)\]/g, ':$1(.*)')
RECURSIVE ReplaceSpread(_)
ReplaceSpread(s) ==
    IF s = <<>> THEN <<>>
    ELSE LET c == FirstClose(s, 5) IN
         IF StartsWithAt(s, 1, <<"[", ".", ".", ".">>) /\ c > 5
         THEN <<":">> \o SubSeq(s, 5, c - 1) \o <<"(", ".", "*", ")">>
                 \o ReplaceSpread(SubSeq(s, c + 1, Len(s)))
         ELSE <<s[1]>> \o ReplaceSpread(Tail(s))

\* .replace(/\[([^\]]+)\]/g, ':$1')
RECURSIVE ReplaceSingle(_)
ReplaceSingle(s) ==
    IF s = <<>> THEN <<>>
    ELSE LET c == FirstClose(s, 2) IN
         IF s[1] = "[" /\ c > 2
         THEN <<":">> \o SubSeq(s, 2, c - 1) \o ReplaceSingle(SubSeq(s, c + 1, Len(s)))
         ELSE <<s[1]>> \o ReplaceSingle(Tail(s))

convertToPathToRegexpPattern(routePattern) ==
    ReplaceSingle(ReplaceSpread(ReplaceTrailingStar(normalizePath(routePattern))))

\* routePattern.includes(`[...${paramName}]`)
isVariableSegmentName(paramName, routePattern) ==
    Includes(routePattern, <<"[", ".", ".", ".">> \o paramName \o <<"]">>)

-----------------------------------------------------------------------------
(* path-to-regexp (6.x): parse(), tokensToRegexp() and match() as called by *)
(* ParameterExtractor with the default options: sensitive = false,          *)
(* strict = false, end = true, delimiter "/#?", prefixes "./".              *)

Lit(text) ==
    [kind |-> "lit", text |-> text, name |-> <<>>, prefix |-> <<>>,
     pattern |-> <<>>, modifier |-> <<>>]

\* pattern <<>> stands for the default pattern [^\/#\?]+?
Key(name, prefix, pattern, modifier) ==
    [kind |-> "key", text |-> <<>>, name |-> name, prefix |-> prefix,
     pattern |-> pattern, modifier |-> modifier]

ParseThrows == [throws |-> TRUE, tokens |-> <<>>]

\* lexer: a NAME is made of the characters 0-9, A-Z, a-z and _
IsNameChar(c) ==
    c \notin {"/", ".", "(", ")", "*", "+", "?", "[", "]", ":", "%", "-", "{", "}"}

\* last index of the maximal run of name characters starting at i (i - 1 if empty)
NameEnd(s, i) ==
    CHOOSE j \in (i - 1)..Len(s) :
        /\ \A k \in i..j : IsNameChar(s[k])
        /\ (j = Len(s) \/ ~IsNameChar(s[j + 1]))

\* lexer: index of the ")" closing the "(" at i; 0 when the lexer throws
\* (unbalanced pattern, capturing group inside, "?" first, or empty pattern)
PatternEnd(s, i) ==
    IF \E j \in (i + 1)..Len(s) : s[j] = ")"
    THEN LET c == CHOOSE j \in (i + 1)..Len(s) :
                      s[j] = ")" /\ \A k \in (i + 1)..(j - 1) : s[k] # ")"
         IN IF c = i + 1 \/ s[i + 1] = "?" \/ \E k \in (i + 1)..(c - 1) : s[k] = "("
            THEN 0 ELSE c
    ELSE 0

Flush(pending, acc) == IF pending = <<>> THEN acc ELSE Append(acc, Lit(pending))

RECURSIVE ParseFrom(_, _, _, _), ParseKey(_, _, _, _, _)

\* parse() at character i: pending is the literal text collected so far
ParseFrom(s, i, pending, acc) ==
    IF i > Len(s) THEN [throws |-> FALSE, tokens |-> Flush(pending, acc)]
    ELSE IF s[i] \in {"*", "+", "?", "{", "}"} THEN ParseThrows
    ELSE IF s[i] \in {":", "("} THEN ParseKey(s, i, <<>>, pending, acc)
    ELSE IF i < Len(s) /\ s[i + 1] \in {":", "("}
         THEN IF s[i] \in {".", "/"}
              THEN ParseKey(s, i + 1, <<s[i]>>, pending, acc)
              ELSE ParseKey(s, i + 1, <<>>, Append(pending, s[i]), acc)
         ELSE ParseFrom(s, i + 1, Append(pending, s[i]), acc)

\* a NAME and/or a PATTERN starts at i, followed by an optional MODIFIER
ParseKey(s, i, prefix, pending, acc) ==
    LET named == s[i] = ":"
        ne == IF named THEN NameEnd(s, i + 1) ELSE i - 1
        j == ne + 1
        hasPat == j <= Len(s) /\ s[j] = "("
        pe == IF hasPat THEN PatternEnd(s, j) ELSE j - 1
        j2 == pe + 1
        hasMod == j2 <= Len(s) /\ s[j2] \in {"*", "+", "?"}
    IN IF (named /\ ne < i + 1) \/ (hasPat /\ pe = 0) THEN ParseThrows
       ELSE ParseFrom(s, IF hasMod THEN j2 + 1 ELSE j2, <<>>,
                Append(Flush(pending, acc),
                       Key(IF named THEN SubSeq(s, i + 1, ne) ELSE <<>>,
                           prefix,
                           IF hasPat THEN SubSeq(s, j + 1, pe - 1) ELSE <<>>,
                           IF hasMod THEN <<s[j2]>> ELSE <<>>)))

PtrParse(str) == ParseFrom(str, 1, <<>>, <<>>)

NoMatch == [ok |-> FALSE, caps |-> <<>>]

SetMin(S) == CHOOSE x \in S : \A y \in S : x <= y
SetMax(S) == CHOOSE x \in S : \A y \in S : x >= y

\* The regular expression built by tokensToRegexp, run on p from position pos
\* for the tokens k.. : literals compare case-insensitively (flag "i"), a key
\* is (?:prefix(pattern)), and the end is [\/#\?]?$ . The captures are those
\* of the first match in the backtracking order (greedy .* and .+, lazy +?).
\* Keys carry no modifier for the route strings of this model.
RECURSIVE MatchFrom(_, _, _, _)
MatchFrom(toks, k, p, pos) ==
    IF k > Len(toks)
    THEN IF pos = Len(p) + 1 \/ (pos = Len(p) /\ p[pos] \in {"/", "#", "?"})
         THEN [ok |-> TRUE, caps |-> <<>>] ELSE NoMatch
    ELSE LET t == toks[k] IN
         IF t.kind = "lit"
         THEN IF /\ pos + Len(t.text) - 1 <= Len(p)
                 /\ LowerStr(SubSeq(p, pos, pos + Len(t.text) - 1)) = LowerStr(t.text)
              THEN MatchFrom(toks, k + 1, p, pos + Len(t.text))
              ELSE NoMatch
         ELSE LET start == pos + Len(t.prefix)
                  minLen == IF t.pattern = <<".", "*">> THEN 0 ELSE 1
                  ends == {e \in (start + minLen - 1)..Len(p) :
                              /\ \A i \in start..e :
                                    t.pattern = <<>> => p[i] \notin {"/", "#", "?"}
                              /\ MatchFrom(toks, k + 1, p, e + 1).ok}
              IN IF ~StartsWithAt(p, pos, t.prefix) \/ ends = {} THEN NoMatch
                 ELSE LET e == IF t.pattern = <<>> THEN SetMin(ends) ELSE SetMax(ends)
                      IN [ok |-> TRUE,
                          caps |-> <<SubSeq(p, start, e)>>
                                      \o MatchFrom(toks, k + 1, p, e + 1).caps]

\* decodeURIComponent: "%41" is "A"; a "%" not followed by two hexadecimal
\* digits raises URIError
RECURSIVE DecodeThrows(_), Decode(_)
DecodeThrows(s) ==
    IF s = <<>> THEN FALSE
    ELSE IF s[1] = "%"
         THEN IF Len(s) >= 3 /\ s[2] = "4" /\ s[3] = "1"
              THEN DecodeThrows(SubSeq(s, 4, Len(s))) ELSE TRUE
         ELSE DecodeThrows(Tail(s))

Decode(s) ==
    IF s = <<>> THEN <<>>
    ELSE IF s[1] = "%" THEN <<"A">> \o Decode(SubSeq(s, 4, Len(s)))
    ELSE <<s[1]>> \o Decode(Tail(s))

KeysOf(toks) == SelectSeq(toks, LAMBDA t : t.kind = "key")

\* match(pattern, { decode: decodeURIComponent })(urlPath):
\* throws (TypeError of the parser, URIError of decode), false, or params
PtrMatch(pattern, urlPath) ==
    LET parsed == PtrParse(pattern) IN
    IF parsed.throws THEN [throws |-> TRUE, ok |-> FALSE, params |-> <<>>]
    ELSE LET m == MatchFrom(parsed.tokens, 1, urlPath, 1)
             keys == KeysOf(parsed.tokens)
         IN IF ~m.ok THEN [throws |-> FALSE, ok |-> FALSE, params |-> <<>>]
            ELSE IF \E i \in 1..Len(m.caps) : DecodeThrows(m.caps[i])
            THEN [throws |-> TRUE, ok |-> FALSE, params |-> <<>>]
            ELSE [throws |-> FALSE, ok |-> TRUE,
                  params |-> [n \in {keys[i].name : i \in 1..Len(keys)} |->
                      Decode(m.caps[SetMax({i \in 1..Len(keys) : keys[i].name = n})])]]

-----------------------------------------------------------------------------
(* ParameterExtractor.extractParameters and matchesPattern *)

StrVal(s) == [t |-> "string", v |-> s]
ArrVal(a) == [t |-> "array", v |-> a]

segmentsName == <<"s", "e", "g", "m", "e", "n", "t", "s">>

\* the value kept for one captured parameter
ParamValue(key, value, routePattern) ==
    IF isVariableSegmentName(key, routePattern) \/ key = segmentsName
    THEN ArrVal(FilterNonEmpty(SplitSlash(value, <<>>)))
    ELSE StrVal(value)

\* returns {} when the pattern does not match; an exception of match() escapes
extractParameters(urlPath, routePattern) ==
    LET result == PtrMatch(convertToPathToRegexpPattern(routePattern), urlPath) IN
    IF result.throws THEN [throws |-> TRUE, params |-> <<>>]
    ELSE IF ~result.ok THEN [throws |-> FALSE, params |-> <<>>]
    ELSE [throws |-> FALSE,
          params |-> [key \in DOMAIN result.params |->
                         ParamValue(key, result.params[key], routePattern)]]

matchesPattern(urlPath, routePattern) ==
    LET result == PtrMatch(convertToPathToRegexpPattern(routePattern), urlPath) IN
    [throws |-> result.throws, value |-> result.ok]


-----------------------------------------------------------------------------
(* RouteScanner: file name to route path, classification, parameter names *)

tsExt == <<".", "t", "s">>
jsExt == <<".", "j", "s">>

\* relativePath.replace(/\.(ts|js)$/, ''), then a leading "/" if missing
getRoutePathFromFile(relativePath) ==
    LET noExt == IF EndsWith(relativePath, tsExt) \/ EndsWith(relativePath, jsExt)
                 THEN SubSeq(relativePath, 1, Len(relativePath) - 3)
                 ELSE relativePath
    IN IF StartsWithAt(noExt, 1, <<"/">>) THEN noExt ELSE <<"/">> \o noExt

\* routePath.match(/\[[^\]]+\]/g): the matched substrings, left to right
RECURSIVE BracketMatches(_)
BracketMatches(s) ==
    IF s = <<>> THEN <<>>
    ELSE LET c == FirstClose(s, 2) IN
         IF s[1] = "[" /\ c > 2
         THEN <<SubSeq(s, 1, c)>> \o BracketMatches(SubSeq(s, c + 1, Len(s)))
         ELSE BracketMatches(Tail(s))

\* RouteScanner.determineRouteType
determineRouteType(routePath) ==
    IF Includes(routePath, <<"[", ".", ".", ".">>) THEN "variableSegments"
    ELSE IF Includes(routePath, <<"[">>) /\ Includes(routePath, <<"]">>)
         THEN IF Len(BracketMatches(routePath)) = 1 THEN "singleParam" ELSE "nested"
         ELSE "simple"

\* match.replace(/[\[\]]/g, '').replace(/^\.\.\./g, '')
ParameterNameOf(m) ==
    LET noBrackets == SelectSeq(m, LAMBDA c : c \notin {"[", "]"})
    IN IF StartsWithAt(noBrackets, 1, <<".", ".", ".">>)
       THEN SubSeq(noBrackets, 4, Len(noBrackets)) ELSE noBrackets

\* RouteScanner.getRouteParameters (and its alias extractParameters)
getRouteParameters(routePath) ==
    LET matches == BracketMatches(routePath)
    IN [i \in 1..Len(matches) |-> ParameterNameOf(matches[i])]

\* src/utils.ts determineRouteType: counts the "[" characters
CountChar(s, ch) == Cardinality({i \in 1..Len(s) : s[i] = ch})

utilsDetermineRouteType(routePath) ==
    IF ~Includes(routePath, <<"[">>) THEN "simple"
    ELSE IF Includes(routePath, <<"[", ".", ".", ".">>) THEN "variableSegments"
    ELSE IF CountChar(routePath, "[") = 1 THEN "singleParam"
    ELSE "nested"

\* the classification Router.addRoute computes inline
addRouteType(path) ==
    IF Includes(path, <<"[">>)
    THEN IF Includes(path, <<"[", ".", ".", ".">>) THEN "variableSegments"
         ELSE "singleParam"
    ELSE "simple"


-----------------------------------------------------------------------------
(* Inputs of the pure functions: route patterns and request paths built     *)
(* from small vocabularies of segments                                      *)

RECURSIVE SeqsUpTo(_, _)
SeqsUpTo(S, n) ==
    IF n = 0 THEN {<<>>}
    ELSE LET shorter == SeqsUpTo(S, n - 1)
         IN shorter \cup {Append(q, x) : q \in {r \in shorter : Len(r) = n - 1}, x \in S}

PatternSegments ==
    { <<"a">>,
      <<"[", "x", "]">>,
      <<"[", "y", "]">>,
      <<"[", ".", ".", ".", "x", "]">>,
      <<"[", "s", "e", "g", "m", "e", "n", "t", "s", "]">>,
      <<"*">>,
      <<"[", "]">>,
      <<"[", "x">> }

PathSegments == { <<"a">>, <<"A">>, <<"b">>, <<"%", "4", "1">>, <<"%">> }

\* a route path has at least one segment, as getRoutePathFromFile produces
RoutePatterns == {JoinPath(q) : q \in SeqsUpTo(PatternSegments, MaxPatSegs) \ {<<>>}}

\* a request path, with or without a trailing "/"
UrlPaths ==
    LET plain == {JoinPath(q) : q \in SeqsUpTo(PathSegments, MaxPathSegs)}
    IN plain \cup {Append(p, "/") : p \in plain}

NoCall ==
    [op |-> "none", routePattern |-> <<>>, urlPath |-> <<>>,
     matches |-> [throws |-> FALSE, value |-> FALSE],
     extracted |-> [throws |-> FALSE, params |-> <<>>],
     type |-> "simple", parameters |-> <<>>,
     params |-> <<>>, validationConfig |-> <<>>,
     validated |-> [throws |-> FALSE, errors |-> <<>>, checks |-> <<>>],
     raw |-> <<>>, normalized |-> <<>>, utilsNormalized |-> <<>>]

\* the inputs drawn for one call: a route pattern and a request path
Inputs(patterns, paths) ==
    {[NoCall EXCEPT !.routePattern = routePattern, !.urlPath = urlPath] :
        routePattern \in patterns, urlPath \in paths}

\* matchesPattern(urlPath, routePattern) and extractParameters(urlPath, routePattern)
CallMatch ==
    /\ call.op = "none"
    /\ call' = [call EXCEPT !.op = "match",
                            !.matches = matchesPattern(call.urlPath, call.routePattern),
                            !.extracted = extractParameters(call.urlPath, call.routePattern)]
    /\ UNCHANGED routerVars

\* the classification and the parameter names fileToRouteInfo computes
CallClassify ==
    /\ call.op = "none"
    /\ call' = [call EXCEPT !.op = "classify",
                            !.type = determineRouteType(call.routePattern),
                            !.parameters = getRouteParameters(call.routePattern)]
    /\ UNCHANGED routerVars

\* utils.normalizePath: the same three replacements as the extractor's
utilsNormalizePath(path) == ReplaceLeadingSlash(StripTrailingSlash(CollapseSlashes(path)))

\* a "/" written twice
DoubleSlashes(s) ==
    Flatten([i \in 1..Len(s) |-> IF s[i] = "/" THEN <<"/", "/">> ELSE <<s[i]>>])

\* the ways a caller may write a route string: as is, without the leading
\* "/", with repeated separators, with a trailing separator
RawForms(routePattern) ==
    {routePattern, Tail(routePattern), DoubleSlashes(routePattern),
     Append(routePattern, "/")}

\* normalizePath(raw), of the extractor and of utils
CallNormalize ==
    /\ call.op = "none"
    /\ \E raw \in RawForms(call.routePattern) :
          call' = [call EXCEPT !.op = "normalize", !.raw = raw,
                                  !.normalized = normalizePath(raw),
                                  !.utilsNormalized = utilsNormalizePath(raw)]
    /\ UNCHANGED routerVars

-----------------------------------------------------------------------------
(* ParameterExtractor.validateParameters *)

Digits == {"0", "1", "2", "4"}

\* validation.pattern.test(value) for the regular expressions of the model
PatternTest(pattern, value) ==
    IF pattern = "digits" THEN value # <<>> /\ \A i \in 1..Len(value) : value[i] \in Digits
    ELSE TRUE

\* validation.validator(value): "true", "false" or "throws"
ApplyValidator(validator, value) ==
    CASE validator = "nonEmptyArray" ->
            IF value.t = "array" /\ Len(value.v) >= 1 THEN "true" ELSE "false"
      [] validator = "minLength3" ->
            IF value.t = "string" /\ Len(value.v) >= 3 THEN "true" ELSE "false"
      [] validator = "throws" -> "throws"
      [] OTHER -> "true"

\* params[paramName] of a name the mapping does not have
Undefined == [t |-> "undefined", v |-> <<>>]

ValueOf(params, paramName) ==
    IF paramName \in DOMAIN params THEN params[paramName] ELSE Undefined

ValidationErr(paramName, type) == [paramName |-> paramName, type |-> type]

\* ErrorsOfEntry without the `continue` after the required error
ErrorsOfEntryNoContinue(params, paramName, validation) ==
    LET value == ValueOf(params, paramName) IN
    (IF paramName \notin DOMAIN params
     THEN <<ValidationErr(paramName, "required")>> ELSE <<>>)
    \o (IF /\ validation.pattern # "none"
            /\ value.t = "string"
            /\ ~PatternTest(validation.pattern, value.v)
         THEN <<ValidationErr(paramName, "pattern")>> ELSE <<>>)
    \o (IF /\ validation.validator # "none"
            /\ ApplyValidator(validation.validator, value) # "true"
         THEN <<ValidationErr(paramName, "validator")>> ELSE <<>>)

\* ErrorsOfEntry testing the pattern without the `typeof value === 'string'`
ErrorsOfEntryPatternOnAny(params, paramName, validation) ==
    IF paramName \notin DOMAIN params
    THEN <<ValidationErr(paramName, "required")>>
    ELSE LET value == params[paramName] IN
         (IF /\ validation.pattern # "none"
             /\ ~(value.t = "string" /\ PatternTest(validation.pattern, value.v))
          THEN <<ValidationErr(paramName, "pattern")>> ELSE <<>>)
         \o (IF /\ validation.validator # "none"
                 /\ ApplyValidator(validation.validator, value) # "true"
              THEN <<ValidationErr(paramName, "validator")>> ELSE <<>>)

\* the errors one entry of the validation configuration adds
ErrorsOfEntry(params, paramName, validation) ==
    IF paramName \notin DOMAIN params
    THEN <<ValidationErr(paramName, "required")>>
    ELSE LET value == params[paramName]
             patternErrors ==
                 IF /\ validation.pattern # "none"
                    /\ value.t = "string"
                    /\ ~PatternTest(validation.pattern, value.v)
                 THEN <<ValidationErr(paramName, "pattern")>> ELSE <<>>
             validatorErrors ==
                 IF /\ validation.validator # "none"
                    /\ ApplyValidator(validation.validator, value) # "true"
                 THEN <<ValidationErr(paramName, "validator")>> ELSE <<>>
         IN patternErrors \o validatorErrors

\* the checks one entry runs: pattern.test(value) and validator(value)
ChecksOfEntry(params, paramName, validation) ==
    IF paramName \notin DOMAIN params
    THEN <<>>
    ELSE LET value == params[paramName] IN
         (IF validation.pattern # "none" /\ value.t = "string"
          THEN <<[paramName |-> paramName, check |-> "pattern"]>> ELSE <<>>)
         \o (IF validation.validator # "none"
             THEN <<[paramName |-> paramName, check |-> "validator"]>> ELSE <<>>)

\* EntryThrows with the validator called outside try/catch
EntryThrowsUncaught(params, paramName, validation) ==
    /\ paramName \in DOMAIN params
    /\ validation.validator # "none"
    /\ ApplyValidator(validation.validator, params[paramName]) = "throws"

\* whether an exception leaves the loop body for this entry: the validator is
\* called inside try/catch, and the catch adds an error instead
EntryThrows(params, paramName, validation) == FALSE

\* validationConfig is the sequence of Object.entries(validationConfig)
RECURSIVE validateParameters(_, _)
validateParameters(params, validationConfig) ==
    IF validationConfig = <<>> THEN <<>>
    ELSE ErrorsOfEntry(params, Head(validationConfig).name, Head(validationConfig).rule)
            \o validateParameters(params, Tail(validationConfig))

\* the checks validateParameters runs, in order
RECURSIVE checksOfValidate(_, _)
checksOfValidate(params, validationConfig) ==
    IF validationConfig = <<>> THEN <<>>
    ELSE ChecksOfEntry(params, Head(validationConfig).name, Head(validationConfig).rule)
            \o checksOfValidate(params, Tail(validationConfig))

\* a call of validateParameters: an exception leaving the loop ends the call
\* without a result
validateCall(params, validationConfig) ==
    LET thrower == {i \in 1..Len(validationConfig) :
                       EntryThrows(params, validationConfig[i].name, validationConfig[i].rule)}
    IN IF thrower # {}
       THEN [throws |-> TRUE, errors |-> <<>>,
             checks |-> checksOfValidate(params, SubSeq(validationConfig, 1, SetMin(thrower)))]
       ELSE [throws |-> FALSE, errors |-> validateParameters(params, validationConfig),
             checks |-> checksOfValidate(params, validationConfig)]

-----------------------------------------------------------------------------
(* Inputs of validateParameters *)

ParamNames == { <<"i", "d">>, <<"s", "l", "u", "g">>, <<"t", "a", "g", "s">> }

ParamValues ==
    { StrVal(<<"4", "2">>), StrVal(<<"a", "b", "c">>), ArrVal(<< <<"a">> >>) }

\* the extracted parameters: a mapping of some of the names; "tags" is the
\* name of a spread parameter, whose value is a sequence
ParamMaps ==
    UNION {{m \in [S -> ParamValues] :
               <<"t", "a", "g", "s">> \in S => m[<<"t", "a", "g", "s">>].t = "array"} :
           S \in SUBSET ParamNames}

ValidationRules ==
    {[pattern |-> pat, validator |-> val, required |-> req] :
        pat \in {"none", "digits"}, val \in {"none", "minLength3", "throws"},
        req \in {"unset", "false"}}

\* Object.entries(validationConfig): entries with distinct names
ValidationConfigs ==
    {q \in SeqsUpTo({[name |-> n, rule |-> r] : n \in ParamNames, r \in ValidationRules},
                    MaxRules) :
        \A i, j \in 1..Len(q) : i # j => q[i].name # q[j].name}

ValidatorInputs(maps, configs) ==
    {[NoCall EXCEPT !.params = params, !.validationConfig = validationConfig] :
        params \in maps, validationConfig \in configs}

\* validateParameters(params, validationConfig)
CallValidate ==
    /\ call.op = "none"
    /\ call' = [call EXCEPT !.op = "validate",
                            !.validated = validateCall(call.params, call.validationConfig)]
    /\ UNCHANGED routerVars

-----------------------------------------------------------------------------
(* The routes directory: the route files a scan can find *)

\* required: the field route files write in their rules ("unset" when the
\* rule has none)
Rule(pattern, validator) ==
    [pattern |-> pattern, validator |-> validator, required |-> "unset"]

\* methods: the HTTP-method functions the module exports; throwing: those that
\* raise when called; paramValidation: the validation rules the file declares
RouteFile(relativePath, methods, throwing, paramValidation) ==
    [relativePath |-> relativePath, methods |-> methods, throwing |-> throwing,
     paramValidation |-> paramValidation]

FileTable ==
    << \* api/users/[id].ts
       RouteFile(<<"a", "p", "i", "/", "u", "s", "e", "r", "s", "/",
                   "[", "i", "d", "]", ".", "t", "s">>,
                 {"GET"}, {},
                 <<[name |-> <<"i", "d">>, rule |-> Rule("digits", "none")]>>),
       \* api/users/me.ts
       RouteFile(<<"a", "p", "i", "/", "u", "s", "e", "r", "s", "/",
                   "m", "e", ".", "t", "s">>,
                 {"GET"}, {}, <<>>),
       \* api/[id.ts
       RouteFile(<<"a", "p", "i", "/", "[", "i", "d", ".", "t", "s">>,
                 {"GET"}, {}, <<>>),
       \* api/users/index.ts
       RouteFile(<<"a", "p", "i", "/", "u", "s", "e", "r", "s", "/",
                   "i", "n", "d", "e", "x", ".", "t", "s">>,
                 {"GET"}, {}, <<>>),
       \* api/empty.ts: exports no HTTP-method function
       RouteFile(<<"a", "p", "i", "/", "e", "m", "p", "t", "y", ".", "t", "s">>,
                 {}, {}, <<>>),
       \* api/config.ts: its default export is an object that has no
       \* HTTP-method function
       RouteFile(<<"a", "p", "i", "/", "c", "o", "n", "f", "i", "g", ".", "t", "s">>,
                 {}, {}, <<>>) >>

IndexFile == 4
EmptyFile == 5

\* the files whose module has a default export, an object
DefaultExportFiles == {6}

FileIds == DOMAIN FileTable

\* the routes directory when the Router is constructed
InitialFiles == {1, 2}

manualFilePath == <<"m", "a", "n", "u", "a", "l">>

\* the handler objects and paths given to addRoute
ManualHandler == [methods |-> {"GET"}, throwing |-> {}, paramValidation |-> <<>>]

\* a handler object whose GET function raises
ThrowingHandler == [methods |-> {"GET"}, throwing |-> {"GET"}, paramValidation |-> <<>>]

ManualPaths ==
    { \* /api/users/[id]/posts/[postId]
      <<"/", "a", "p", "i", "/", "u", "s", "e", "r", "s", "/", "[", "i", "d", "]",
        "/", "p", "o", "s", "t", "s", "/", "[", "p", "o", "s", "t", "I", "d", "]">>,
      \* /api/users/me
      <<"/", "a", "p", "i", "/", "u", "s", "e", "r", "s", "/", "m", "e">>,
      \* /api/users/[name]
      <<"/", "a", "p", "i", "/", "u", "s", "e", "r", "s", "/",
        "[", "n", "a", "m", "e", "]">>,
      \* /api/users/[user-id]
      <<"/", "a", "p", "i", "/", "u", "s", "e", "r", "s", "/",
        "[", "u", "s", "e", "r", "-", "i", "d", "]">> }

\* the paths addRoute is given with the raising handler: /api/users/me
ThrowingPaths ==
    { <<"/", "a", "p", "i", "/", "u", "s", "e", "r", "s", "/", "m", "e">> }

\* the requests sent to the Hono app
RequestPaths ==
    { <<"/", "a", "p", "i", "/", "u", "s", "e", "r", "s", "/", "m", "e">>,
      <<"/", "a", "p", "i", "/", "u", "s", "e", "r", "s", "/", "4", "2">>,
      <<"/", "a", "p", "i", "/", "u", "s", "e", "r", "s">> }

\* Router.getSupportedMethods: the order of its httpMethods list
httpMethods == <<"GET", "POST">>

Perms(S) ==
    {q \in [1..Cardinality(S) -> S] : \A i, j \in 1..Cardinality(S) : i # j => q[i] # q[j]}

-----------------------------------------------------------------------------
(* RouteScanner.scanRoutes and fileToRouteInfo *)

\* basename of a relative path
Basename(relativePath) ==
    LET parts == SplitSlash(relativePath, <<>>) IN parts[Len(parts)]

\* new RegExp(pattern.replace(/\*/g, '.*')).test(name) for '*.test.ts' and
\* '*.spec.ts': an unanchored search in which "." matches any character
IncludesWild(name, re) ==
    \E i \in 1..(Len(name) - Len(re) + 1) :
        \A k \in 1..Len(re) : re[k] = "." \/ name[i + k - 1] = re[k]

\* RouteScanner.matchesPattern against the ignore list of the Router
MatchesIgnore(name) ==
    \/ name = <<"i", "n", "d", "e", "x", ".", "t", "s">>
    \/ name = <<"i", "n", "d", "e", "x", ".", "j", "s">>
    \/ IncludesWild(name, <<".", "t", "e", "s", "t", ".", "t", "s">>)
    \/ IncludesWild(name, <<".", "s", "p", "e", "c", ".", "t", "s">>)

isValidRouteFile(relativePath) ==
    /\ EndsWith(relativePath, tsExt) \/ EndsWith(relativePath, jsExt)
    /\ ~MatchesIgnore(Basename(relativePath))
    /\ ~MatchesIgnore(relativePath)

fileToRouteInfo(f) ==
    LET routePath == getRoutePathFromFile(FileTable[f].relativePath)
    IN [path |-> routePath,
        type |-> determineRouteType(routePath),
        parameters |-> getRouteParameters(routePath),
        filePath |-> FileTable[f].relativePath]

\* the values of the pure functions on the files, paths and requests of the
\* Router specification, computed once
RouteInfoOfFile == [f \in FileIds |-> fileToRouteInfo(f)]

ValidFiles == {f \in FileIds : isValidRouteFile(FileTable[f].relativePath)}

RoutePathsOfModel == {RouteInfoOfFile[f].path : f \in FileIds} \cup ManualPaths

HonoPathOf == [p \in RoutePathsOfModel |-> convertToPathToRegexpPattern(p)]

ParametersOf == [p \in RoutePathsOfModel |-> getRouteParameters(p)]

ExtractedFrom ==
    [p \in RoutePathsOfModel |-> [u \in RequestPaths |-> extractParameters(u, p)]]

MatchesFrom ==
    [p \in RoutePathsOfModel |-> [u \in RequestPaths |-> matchesPattern(u, p)]]


-----------------------------------------------------------------------------
(* Hono: the routes of an app are kept in the order they were added; a      *)
(* request runs the first added handler whose method and path match         *)

\* mergePath('/', path): a path not starting with "/" gets one
HonoMergePath(path) == IF StartsWithAt(path, 1, <<"/">>) THEN path ELSE <<"/">> \o path

\* splitPath: split on "/" and drop the empty first part
HonoSplitPath(path) == Tail(SplitSlash(path, <<>>))

\* a label is "*" (wildcard), ":name" (one non-empty part) or static text,
\* compared exactly
HonoLabelMatches(label, part) ==
    IF label = <<"*">> THEN TRUE
    ELSE IF Len(label) >= 2 /\ label[1] = ":" THEN part # <<>>
    ELSE label = part

HonoMatch(routePath, requestPath) ==
    LET labels == HonoSplitPath(routePath)
        parts == HonoSplitPath(requestPath)
    IN /\ Len(requestPath) >= 1 /\ requestPath[1] = "/"
       /\ Len(labels) = Len(parts)
       /\ \A i \in 1..Len(labels) : HonoLabelMatches(labels[i], parts[i])

\* HonoMatch on the route paths and requests of the Router specification
HonoMatches ==
    [r \in {HonoMergePath(HonoPathOf[p]) : p \in RoutePathsOfModel} |->
        [u \in RequestPaths |-> HonoMatch(r, u)]]

NoRouteInfo == [path |-> <<>>, type |-> "simple", parameters |-> <<>>, filePath |-> <<>>]
NoHandler == [methods |-> {}, throwing |-> {}, paramValidation |-> <<>>]

\* app.on(method, routePath, callback): the callback closes over routeInfo and handler
AppRoute(method, routeInfo, handler) ==
    [kind |-> "route", method |-> method,
     path |-> HonoMergePath(HonoPathOf[routeInfo.path]),
     routeInfo |-> routeInfo, handler |-> handler]

\* app.use('*', errorMiddleware)
AppUse ==
    [kind |-> "use", method |-> "ALL", path |-> <<"/", "*">>,
     routeInfo |-> NoRouteInfo, handler |-> NoHandler]

NewHono == [routes |-> <<>>, notFound |-> FALSE]

\* indices of the route callbacks a request reaches, in order; the error
\* middleware only awaits next()
Matching(a, method, path) ==
    {i \in 1..Len(a.routes) :
        /\ a.routes[i].kind = "route"
        /\ a.routes[i].method = method
        /\ HonoMatches[a.routes[i].path][path]}

-----------------------------------------------------------------------------
(* Router *)

ZeroByType == [simple |-> 0, singleParam |-> 0, variableSegments |-> 0, nested |-> 0]

InitialStats ==
    [totalRoutes |-> 0, totalFiles |-> 0, routesByMethod |-> <<>>,
     routesByType |-> ZeroByType]

\* Router.updateStats: the counters recomputed from registeredRoutes
CountMethod(routes, m) ==
    Cardinality({<<i, j>> \in (1..Len(routes)) \X (1..Len(httpMethods)) :
                    j <= Len(routes[i].methods) /\ routes[i].methods[j] = m})

CountType(routes, t) == Cardinality({i \in 1..Len(routes) : routes[i].type = t})

updateStats(st, routes) ==
    [st EXCEPT
        !.totalRoutes = Len(routes),
        !.routesByMethod =
            [m \in {routes[i].methods[j] : <<i, j>> \in
                        {<<i, j>> \in (1..Len(routes)) \X (1..Len(httpMethods)) :
                            j <= Len(routes[i].methods)}}
                |-> CountMethod(routes, m)],
        !.routesByType = [t \in DOMAIN ZeroByType |-> CountType(routes, t)]]

\* Router.getSupportedMethods
getSupportedMethods(handler) == SelectSeq(httpMethods, LAMBDA m : m \in handler.methods)

\* the handler object Router.loadRouteHandler returns for file f
HandlerOf(f) ==
    [methods |-> FileTable[f].methods, throwing |-> FileTable[f].throwing,
     paramValidation |-> FileTable[f].paramValidation]

\* module.default || module.handler is returned as it is when it is an
\* object; the HTTP-method functions are looked for, and required, only among
\* the named exports of a module without one
LoadsHandler(f, present) ==
    /\ f \in present
    /\ f \in DefaultExportFiles \/ FileTable[f].methods # {}

RegisteredRouteOf(routeInfo, methods) ==
    [path |-> routeInfo.path, filePath |-> routeInfo.filePath, type |-> routeInfo.type,
     methods |-> methods, parameters |-> routeInfo.parameters]

\* the app.on calls of Router.registerRouteMethod for each method
AppRoutesOf(routeInfo, methods, handler) ==
    [i \in 1..Len(methods) |-> AppRoute(methods[i], routeInfo, handler)]

\* Router.registerRoute: what it leaves in registeredRoutes
RoutesAfterRegister(routes, f, present) ==
    IF LoadsHandler(f, present)
    THEN Append(routes, RegisteredRouteOf(RouteInfoOfFile[f], getSupportedMethods(HandlerOf(f))))
    ELSE routes

RECURSIVE RoutesOfScan(_, _)
\* the table a scan of the files in queue builds from an empty registry
RoutesOfScan(queue, present) ==
    IF queue = <<>> THEN <<>>
    ELSE RoutesAfterRegister(<<>>, Head(queue), present)
             \o RoutesOfScan(Tail(queue), present)

Running(t) == t.pc # "done"

Task(kind, old) ==
    [kind |-> kind, pc |-> "scan", queue |-> <<>>, scanned |-> <<>>,
     hasScanned |-> FALSE, old |-> old, success |-> FALSE, routesRegistered |-> 0,
     present |-> {}, unloaded |-> {}, overlapped |-> FALSE]

\* no initialize()/refresh()/rescan() call is in progress
Quiet == \A t \in DOMAIN tasks : ~Running(tasks[t])

\* the call initialize() begins: a missing routes directory makes it throw
\* before its first await, and its catch returns success: false with
\* routesRegistered: 0
TaskBegun(kind, old) ==
    IF routesDirectoryExists THEN [Task(kind, old) EXCEPT !.overlapped = ~Quiet]
    ELSE [Task(kind, <<>>) EXCEPT !.pc = "done", !.overlapped = ~Quiet]

NoObs == [taken |-> FALSE, routes |-> <<>>, during |-> FALSE, old |-> <<>>, new |-> <<>>]

\* the fields of the ExtendedContext the callback hands to the handler:
\* undefined ones are not set
NoContext ==
    [routeParams |-> [set |-> FALSE, value |-> <<>>],
     params |-> [set |-> FALSE, value |-> <<>>]]

\* c as ExtendedContext with routeParams assigned: the only field the
\* callback writes
ExtendedContextOf(params) ==
    [NoContext EXCEPT !.routeParams = [set |-> TRUE, value |-> params]]

NoReq ==
    [served |-> FALSE, method |-> "GET", path |-> <<>>, status |-> 0,
     outcome |-> "none", handlerRan |-> FALSE, routeInfo |-> NoRouteInfo,
     handler |-> NoHandler, params |-> <<>>, index |-> 0, compilations |-> 0,
     context |-> NoContext]

RouterInit ==
    /\ files = InitialFiles
    /\ routesDirectoryExists = TRUE
    /\ registeredRoutes = <<>>
    /\ app = NewHono
    /\ stats = InitialStats
    /\ tasks = <<>>
    /\ manual = 0
    /\ fsChanges = 0
    /\ obs = NoObs
    /\ lastReq = NoReq

\* initialize() up to its first await
StartInitialize ==
    /\ Len(tasks) < MaxCalls
    /\ tasks' = Append(tasks, TaskBegun("initialize", registeredRoutes))
    /\ obs' = NoObs /\ lastReq' = NoReq
    /\ UNCHANGED <<call, files, routesDirectoryExists, registeredRoutes, app, stats, manual, fsChanges>>

\* refresh(): clears the registry and the counters, then calls initialize()
StartRefresh ==
    /\ Len(tasks) < MaxCalls
    /\ registeredRoutes' = <<>>
    /\ stats' = [stats EXCEPT !.totalRoutes = 0, !.totalFiles = 0,
                              !.routesByMethod = <<>>, !.routesByType = ZeroByType]
    /\ tasks' = Append(tasks, TaskBegun("refresh", registeredRoutes))
    /\ obs' = NoObs /\ lastReq' = NoReq
    /\ UNCHANGED <<call, files, routesDirectoryExists, app, manual, fsChanges>>

\* rescan(): clears the registry, replaces the Hono instance, calls initialize()
StartRescan ==
    /\ Len(tasks) < MaxCalls
    /\ registeredRoutes' = <<>>
    /\ app' = NewHono
    /\ tasks' = Append(tasks, TaskBegun("rescan", registeredRoutes))
    /\ obs' = NoObs /\ lastReq' = NoReq
    /\ UNCHANGED <<call, files, routesDirectoryExists, stats, manual, fsChanges>>

\* the calls of a caller that awaits each one before it makes the next
Initialize == Quiet /\ StartInitialize
Refresh == Quiet /\ StartRefresh
Rescan == Quiet /\ StartRescan

\* await this.scanner.scanRoutes(): the valid route files, in directory order
Scan(t) ==
    /\ t \in DOMAIN tasks
    /\ tasks[t].pc = "scan"
    /\ \E q \in Perms(files \cap ValidFiles) :
          tasks' = [tasks EXCEPT ![t].queue = q, ![t].scanned = q,
                                 ![t].hasScanned = TRUE,
                                 ![t].present = files,
                                 ![t].pc = IF q = <<>> THEN "finish" ELSE "register"]
    /\ obs' = NoObs /\ lastReq' = NoReq
    /\ UNCHANGED <<call, files, routesDirectoryExists, registeredRoutes, app, stats, manual, fsChanges>>

\* one iteration of the registration loop: fileToRouteInfo, then registerRoute
Register(t) ==
    /\ t \in DOMAIN tasks
    /\ tasks[t].pc = "register"
    /\ LET f == Head(tasks[t].queue)
           routeInfo == RouteInfoOfFile[f]
           handler == HandlerOf(f)
           methods == getSupportedMethods(handler)
       IN /\ IF LoadsHandler(f, files)
             THEN /\ app' = [app EXCEPT !.routes = @ \o AppRoutesOf(routeInfo, methods, handler)]
                  /\ registeredRoutes' = RoutesAfterRegister(registeredRoutes, f, files)
             ELSE UNCHANGED <<app, registeredRoutes>>
          /\ tasks' = [tasks EXCEPT ![t].queue = Tail(@),
                                    ![t].unloaded = IF LoadsHandler(f, files)
                                                    THEN @ ELSE @ \cup {f},
                                    ![t].pc = IF Len(tasks[t].queue) = 1
                                              THEN "finish" ELSE "register"]
    /\ obs' = NoObs /\ lastReq' = NoReq
    /\ UNCHANGED <<call, files, routesDirectoryExists, stats, manual, fsChanges>>

\* registerRoute(routeInfo) called on its own, with the route information
\* the scanner gives for file f: no updateStats follows
RegisterRoute(f) ==
    /\ Quiet
    /\ manual < MaxManual
    /\ manual' = manual + 1
    /\ LET routeInfo == RouteInfoOfFile[f]
           handler == HandlerOf(f)
           methods == getSupportedMethods(handler)
       IN IF LoadsHandler(f, files)
          THEN /\ app' = [app EXCEPT !.routes = @ \o AppRoutesOf(routeInfo, methods, handler)]
               /\ registeredRoutes' = RoutesAfterRegister(registeredRoutes, f, files)
          ELSE UNCHANGED <<app, registeredRoutes>>
    /\ obs' = NoObs /\ lastReq' = NoReq
    /\ UNCHANGED <<call, files, routesDirectoryExists, stats, tasks, fsChanges>>

\* the end of initialize(): error middleware, 404 handler, statistics, result
Finish(t) ==
    /\ t \in DOMAIN tasks
    /\ tasks[t].pc = "finish"
    /\ app' = [app EXCEPT !.routes = Append(@, AppUse), !.notFound = TRUE]
    /\ stats' = updateStats([stats EXCEPT !.totalFiles = Len(tasks[t].scanned)],
                            registeredRoutes)
    /\ tasks' = [tasks EXCEPT ![t] = [Task(@.kind, <<>>) EXCEPT
                                          !.pc = "done", !.success = TRUE,
                                          !.present = tasks[t].present,
                                          !.unloaded = tasks[t].unloaded,
                                          !.overlapped = tasks[t].overlapped,
                                          !.routesRegistered = Len(registeredRoutes)]]
    /\ obs' = NoObs /\ lastReq' = NoReq
    /\ UNCHANGED <<call, files, routesDirectoryExists, registeredRoutes, manual, fsChanges>>

\* addRoute(path, handler, methods)
AddRoute(path, handler, methods) ==
    /\ Quiet
    /\ manual < MaxManual
    /\ manual' = manual + 1
    /\ LET routeInfo == [path |-> path, type |-> addRouteType(path),
                         parameters |-> ParametersOf[path],
                         filePath |-> manualFilePath]
       IN /\ app' = [app EXCEPT !.routes = @ \o AppRoutesOf(routeInfo, methods, handler)]
          /\ registeredRoutes' = Append(registeredRoutes, RegisteredRouteOf(routeInfo, methods))
          /\ stats' = updateStats(stats, registeredRoutes')
    /\ obs' = NoObs /\ lastReq' = NoReq
    /\ UNCHANGED <<call, files, routesDirectoryExists, tasks, fsChanges>>

\* removeRoute(path): the first registered route with that path is spliced out
RemoveRoute(path) ==
    /\ Quiet
    /\ manual < MaxManual
    /\ manual' = manual + 1
    /\ LET found == {i \in 1..Len(registeredRoutes) : registeredRoutes[i].path = path} IN
       IF found # {}
       THEN LET index == SetMin(found) IN
            /\ registeredRoutes' = SubSeq(registeredRoutes, 1, index - 1)
                                      \o SubSeq(registeredRoutes, index + 1, Len(registeredRoutes))
            /\ stats' = updateStats(stats, registeredRoutes')
       ELSE UNCHANGED <<registeredRoutes, stats>>
    /\ obs' = NoObs /\ lastReq' = NoReq
    /\ UNCHANGED <<call, files, routesDirectoryExists, app, tasks, fsChanges>>

\* getRoutes(): a copy of registeredRoutes; old and new are the registry when
\* the running refresh()/rescan() began and the registry its scan builds
GetRoutes ==
    /\ LET running == {t \in DOMAIN tasks :
                          Running(tasks[t]) /\ tasks[t].kind \in {"refresh", "rescan"}}
       IN obs' = IF running = {}
                 THEN [NoObs EXCEPT !.taken = TRUE, !.routes = registeredRoutes]
                 ELSE LET t == tasks[SetMin(running)] IN
                      [taken |-> TRUE, routes |-> registeredRoutes, during |-> TRUE,
                       old |-> t.old,
                       new |-> IF t.hasScanned THEN RoutesOfScan(t.scanned, files)
                               ELSE t.old]
    /\ lastReq' = NoReq
    /\ UNCHANGED <<call, files, routesDirectoryExists, registeredRoutes, app, stats, tasks, manual, fsChanges>>

\* what is recorded of a request the Hono app has served
Served(method, path, status, outcome, handlerRan, r, index, params, context) ==
    [served |-> TRUE, method |-> method, path |-> path, status |-> status,
     outcome |-> outcome, handlerRan |-> handlerRan, routeInfo |-> r.routeInfo,
     handler |-> r.handler, params |-> params, index |-> index,
     compilations |-> IF index = 0 THEN 0 ELSE 1, context |-> context]

NoAppRoute == [routeInfo |-> NoRouteInfo, handler |-> NoHandler]

\* the Hono app finds no route callback for the request: the handler installed
\* by app.notFound, or Hono's own 404 response when none is installed
NotFoundResult(method, path) ==
    Served(method, path, 404, IF app.notFound THEN "handle404" ELSE "honoNotFound",
           FALSE, NoAppRoute, 0, <<>>, NoContext)

\* the callback without its try/catch: what the handler raises leaves the
\* callback and no response is made by the error handler
CallbackOutcomeNoCatch(r, extracted, index, method, path) ==
    IF extracted.throws
    THEN Served(method, path, 0, "propagated", FALSE, r, index, <<>>, NoContext)
    ELSE IF method \notin r.handler.methods
    THEN Served(method, path, 405, "handleMethodNotAllowed", FALSE, r, index,
                extracted.params, NoContext)
    ELSE IF method \in r.handler.throwing
    THEN Served(method, path, 0, "propagated", TRUE, r, index,
                extracted.params, ExtendedContextOf(extracted.params))
    ELSE Served(method, path, 200, "handler", TRUE, r, index,
                extracted.params, ExtendedContextOf(extracted.params))

\* the body of the callback registerRouteMethod gave to app.on for route r,
\* extracted being what extractRouteParameters gives or raises
CallbackOutcome(r, extracted, index, method, path) ==
    IF extracted.throws
    THEN Served(method, path, 500, "handleInternalError", FALSE, r, index,
                <<>>, NoContext)
    ELSE IF method \notin r.handler.methods
    THEN Served(method, path, 405, "handleMethodNotAllowed", FALSE, r, index,
                extracted.params, NoContext)
    ELSE IF method \in r.handler.throwing
    THEN Served(method, path, 500, "handleInternalError", TRUE, r, index,
                extracted.params, ExtendedContextOf(extracted.params))
    ELSE Served(method, path, 200, "handler", TRUE, r, index,
                extracted.params, ExtendedContextOf(extracted.params))

\* the callback of the route at index: extractParameters compiles the
\* route's pattern with match() on each call
CallbackResult(index, method, path) ==
    CallbackOutcome(app.routes[index],
                    ExtractedFrom[app.routes[index].routeInfo.path][path],
                    index, method, path)

\* the response of the first added route among the matching ones
FirstOf(matching, method, path) ==
    IF matching = {} THEN NotFoundResult(method, path)
    ELSE CallbackResult(SetMin(matching), method, path)

\* Resolve running the callback added last instead of the one added first
ResolveLast(method, path) ==
    LET matching == Matching(app, method, path) IN
    IF matching = {} THEN NotFoundResult(method, path)
    ELSE CallbackResult(SetMax(matching), method, path)

\* what the Hono app answers: the callback of the first added matching route
\* returns the response, so no later one runs
Resolve(method, path) == FirstOf(Matching(app, method, path), method, path)

\* Request counting the requests it serves in the statistics
RequestCounting(method, path) ==
    /\ lastReq' = Resolve(method, path)
    /\ obs' = NoObs
    /\ stats' = [stats EXCEPT !.totalRoutes = (@ + 1) % 4]
    /\ UNCHANGED <<call, files, routesDirectoryExists, registeredRoutes, app, tasks, manual, fsChanges>>

\* a request served by the Hono app
Request(method, path) ==
    /\ lastReq' = Resolve(method, path)
    /\ obs' = NoObs
    /\ UNCHANGED <<call, files, routesDirectoryExists, registeredRoutes, app, stats, tasks, manual, fsChanges>>

\* a route file is created in, or deleted from, the routes directory
FsAdd(f) ==
    /\ routesDirectoryExists
    /\ f \notin files
    /\ Cardinality(files) < MaxFiles
    /\ fsChanges < MaxFsChanges
    /\ fsChanges' = fsChanges + 1
    /\ files' = files \cup {f}
    /\ obs' = NoObs /\ lastReq' = NoReq
    /\ UNCHANGED <<call, routesDirectoryExists, registeredRoutes, app, stats, tasks, manual>>

FsRemove(f) ==
    /\ f \in files
    /\ fsChanges < MaxFsChanges
    /\ fsChanges' = fsChanges + 1
    /\ files' = files \ {f}
    /\ obs' = NoObs /\ lastReq' = NoReq
    /\ UNCHANGED <<call, routesDirectoryExists, registeredRoutes, app, stats, tasks, manual>>

\* the routes directory is deleted with everything in it
FsRemoveDirectory ==
    /\ routesDirectoryExists
    /\ fsChanges < MaxFsChanges
    /\ fsChanges' = fsChanges + 1
    /\ routesDirectoryExists' = FALSE
    /\ files' = {}
    /\ obs' = NoObs /\ lastReq' = NoReq
    /\ UNCHANGED <<call, registeredRoutes, app, stats, tasks, manual>>

-----------------------------------------------------------------------------
(* Specifications *)

Init ==
    /\ call = NoCall
    /\ RouterInit

Next ==
    \/ Initialize
    \/ Refresh
    \/ Rescan
    \/ \E t \in 1..MaxCalls : Scan(t)
    \/ \E t \in 1..MaxCalls : Register(t)
    \/ \E t \in 1..MaxCalls : Finish(t)
    \/ \E f \in FileIds : RegisterRoute(f)
    \/ \E path \in ManualPaths : AddRoute(path, ManualHandler, <<"GET">>)
    \/ \E path \in ThrowingPaths : AddRoute(path, ThrowingHandler, <<"GET">>)
    \/ \E path \in ManualPaths : RemoveRoute(path)
    \/ GetRoutes
    \/ \E path \in RequestPaths : Request("GET", path)
    \/ \E f \in FileIds : FsAdd(f)
    \/ \E f \in FileIds : FsRemove(f)
    \/ FsRemoveDirectory

\* the Router
Spec == Init /\ [][Next]_vars

ExtractorInit ==
    /\ call \in Inputs(RoutePatterns, UrlPaths)
    /\ files = {}
    /\ routesDirectoryExists = TRUE
    /\ registeredRoutes = <<>>
    /\ app = NewHono
    /\ stats = InitialStats
    /\ tasks = <<>>
    /\ manual = 0
    /\ fsChanges = 0
    /\ obs = NoObs
    /\ lastReq = NoReq

ExtractorNext ==
    \/ CallMatch
    \/ CallClassify
    \/ CallNormalize

\* the pure functions of ParameterExtractor and RouteScanner on bounded inputs
SpecExtractor == ExtractorInit /\ [][ExtractorNext]_vars

ValidatorInit ==
    /\ call \in ValidatorInputs(ParamMaps, ValidationConfigs)
    /\ files = {}
    /\ routesDirectoryExists = TRUE
    /\ registeredRoutes = <<>>
    /\ app = NewHono
    /\ stats = InitialStats
    /\ tasks = <<>>
    /\ manual = 0
    /\ fsChanges = 0
    /\ obs = NoObs
    /\ lastReq = NoReq

ValidatorNext == CallValidate

\* ParameterExtractor.validateParameters on bounded inputs
SpecValidator == ValidatorInit /\ [][ValidatorNext]_vars

\* a refresh() called while an initialize()/refresh()/rescan() is still
\* awaiting its scan or its registrations: nothing in the Router prevents it
OverlappingRefresh == ~Quiet /\ StartRefresh

OverlapNext ==
    \/ Refresh
    \/ OverlappingRefresh
    \/ \E t \in 1..MaxCalls : Scan(t)
    \/ \E t \in 1..MaxCalls : Register(t)
    \/ \E t \in 1..MaxCalls : Finish(t)
    \/ GetRoutes
    \/ \E path \in RequestPaths : Request("GET", path)

\* the Router under callers that do not await one refresh() before the next
SpecOverlap == Init /\ [][OverlapNext]_vars


-----------------------------------------------------------------------------
(* Vocabulary of the properties: the tokens of a route pattern, segment by  *)
(* segment, as the specification of the engine defines them                 *)

PatternSegs(routePattern) == FilterNonEmpty(SplitSlash(routePattern, <<>>))

\* the non-empty segments of a request path
PathParts(urlPath) == FilterNonEmpty(SplitSlash(urlPath, <<>>))

IsName(s) == s # <<>> /\ \A i \in 1..Len(s) : IsNameChar(s[i])

IsLiteralSegment(seg) == IsName(seg)

IsSpreadToken(seg) ==
    /\ Len(seg) >= 6
    /\ SubSeq(seg, 1, 4) = <<"[", ".", ".", ".">>
    /\ seg[Len(seg)] = "]"
    /\ IsName(SubSeq(seg, 5, Len(seg) - 1))

IsSingleToken(seg) ==
    /\ Len(seg) >= 3
    /\ seg[1] = "["
    /\ seg[Len(seg)] = "]"
    /\ IsName(SubSeq(seg, 2, Len(seg) - 1))

TokenName(seg) ==
    IF IsSpreadToken(seg) THEN SubSeq(seg, 5, Len(seg) - 1) ELSE SubSeq(seg, 2, Len(seg) - 1)

IsToken(seg) == IsSingleToken(seg) \/ IsSpreadToken(seg)

DistinctNames(segs) ==
    \A i, j \in 1..Len(segs) :
        (i # j /\ IsToken(segs[i]) /\ IsToken(segs[j])) => TokenName(segs[i]) # TokenName(segs[j])

\* every segment is a literal, a [name] or a [...name]; names are unique and a
\* spread token, if any, is the last segment
WellFormedPattern(routePattern) ==
    LET segs == PatternSegs(routePattern) IN
    /\ \A i \in 1..Len(segs) : IsLiteralSegment(segs[i]) \/ IsToken(segs[i])
    /\ DistinctNames(segs)
    /\ \A i \in 1..Len(segs) : IsSpreadToken(segs[i]) => i = Len(segs)

NumSingle(segs) == Cardinality({i \in 1..Len(segs) : IsSingleToken(segs[i])})
NumSpread(segs) == Cardinality({i \in 1..Len(segs) : IsSpreadToken(segs[i])})

\* the classification of section 4.2 of the specification
ClassOfTokens(routePattern) ==
    LET segs == PatternSegs(routePattern) IN
    IF NumSpread(segs) > 0 THEN "variableSegments"
    ELSE IF NumSingle(segs) = 0 THEN "simple"
    ELSE IF NumSingle(segs) = 1 THEN "singleParam"
    ELSE "nested"

Decodable(urlPath) == ~DecodeThrows(urlPath)

DecodeAll(parts) == [i \in 1..Len(parts) |-> Decode(parts[i])]

\* position in the specificity order: simple, then by number of parameter
\* tokens, then variableSegments
Specificity(route) ==
    IF route.type = "simple" THEN 0
    ELSE IF route.type = "variableSegments" THEN 1000
    ELSE Len(route.parameters)

-----------------------------------------------------------------------------
(* Properties *)

\* C1: a request is dispatched to the first matching route in specificity
\* order (simple, then singleParam/nested by parameter count, then
\* variableSegments), whatever the registration order: no registered route
\* that matches the request for its method is more specific than the route
\* the request was dispatched to.
C1_DispatchBySpecificity ==
    (lastReq.served /\ lastReq.routeInfo # NoRouteInfo) =>
        \A i \in 1..Len(registeredRoutes) :
            LET route == registeredRoutes[i] IN
            (/\ \E j \in 1..Len(route.methods) : route.methods[j] = lastReq.method
             /\ MatchesFrom[route.path][lastReq.path].value)
                => Specificity(lastReq.routeInfo) <= Specificity(route)

\* C2: what getRoutes() returns while a refresh() or rescan() is in progress
\* is the complete table from before the call or the complete table the
\* call builds, never an empty or partly rebuilt one.
C2_ObservedTableComplete ==
    (obs.taken /\ obs.during) => obs.routes \in {obs.old, obs.new}

\* C3: a request matching a route with declared validation rules is
\* validated before the handler runs; when a rule is violated the handler
\* is not invoked and the request yields a validation failure (400).
C3_ValidatedBeforeHandler ==
    (/\ lastReq.served
     /\ lastReq.routeInfo # NoRouteInfo
     /\ validateParameters(lastReq.params, lastReq.handler.paramValidation) # <<>>)
        => (~lastReq.handlerRan /\ lastReq.status = 400)

\* C4: for a pattern with no parameter tokens, matchesPattern is true if and
\* only if the path equals the normalized pattern, character for character,
\* and extractParameters returns an empty mapping.
C4_LiteralPatternMatchesItselfOnly ==
    (/\ call.op = "match"
     /\ \A i \in 1..Len(PatternSegs(call.routePattern)) :
            IsLiteralSegment(PatternSegs(call.routePattern)[i]))
        => /\ ~call.matches.throws
           /\ ~call.extracted.throws
           /\ call.matches.value <=> (call.urlPath = normalizePath(call.routePattern))
           /\ call.extracted.params = <<>>

\* C5: for a pattern whose tokens are all single-segment [name] tokens, a
\* path matches if and only if it has as many segments as the pattern and
\* every literal segment is equal; on a match each name is bound to the
\* decoded path segment at its position, as a string.
C5_SingleTokensMatchSegmentwise ==
    LET segs == PatternSegs(call.routePattern)
        parts == PathParts(call.urlPath)
        shouldMatch ==
            /\ Len(parts) = Len(segs)
            /\ \A i \in 1..Len(segs) : IsLiteralSegment(segs[i]) => parts[i] = segs[i]
    IN (/\ call.op = "match"
        /\ WellFormedPattern(call.routePattern)
        /\ NumSpread(segs) = 0
        /\ NumSingle(segs) >= 1
        /\ Decodable(call.urlPath))
        => /\ ~call.matches.throws
           /\ call.matches.value <=> shouldMatch
           /\ call.matches.value =>
                call.extracted.params =
                    [n \in {TokenName(segs[i]) : i \in {k \in 1..Len(segs) : IsSingleToken(segs[k])}}
                        |-> StrVal(Decode(parts[CHOOSE i \in 1..Len(segs) :
                                                    IsSingleToken(segs[i]) /\ TokenName(segs[i]) = n]))]

\* C6: for a pattern ending in a spread token [...name] (or a bare trailing
\* /* bound to "segments"), a match leaves at least one path segment for the
\* spread, and the bound value is the sequence of the remaining decoded
\* segments; zero remaining segments is never a match.
C6_SpreadNeedsOneSegment ==
    LET segs == PatternSegs(call.routePattern)
        parts == PathParts(call.urlPath)
        last == segs[Len(segs)]
        name == IF last = <<"*">> THEN segmentsName ELSE TokenName(last)
        rest == SubSeq(parts, Len(segs), Len(parts))
    IN (/\ call.op = "match"
        /\ segs # <<>>
        /\ IsSpreadToken(last) \/ last = <<"*">>
        /\ WellFormedPattern(JoinPath(SubSeq(segs, 1, Len(segs) - 1)))
        /\ NumSpread(SubSeq(segs, 1, Len(segs) - 1)) = 0
        /\ Decodable(call.urlPath)
        /\ call.matches.value)
        => /\ rest # <<>>
           /\ name \in DOMAIN call.extracted.params
           /\ call.extracted.params[name] = ArrVal(DecodeAll(rest))

\* C7: whatever the parameter is named, extractParameters binds a spread
\* parameter to a sequence of strings and a single-segment parameter to one
\* string.
C7_ValueKindFollowsTokenKind ==
    LET segs == PatternSegs(call.routePattern) IN
    (call.op = "match" /\ WellFormedPattern(call.routePattern) /\ call.matches.value)
        => \A i \in 1..Len(segs) :
              /\ IsSpreadToken(segs[i]) =>
                    call.extracted.params[TokenName(segs[i])].t = "array"
              /\ IsSingleToken(segs[i]) =>
                    call.extracted.params[TokenName(segs[i])].t = "string"

\* C8: a route whose pattern has an unterminated bracket, a duplicate
\* parameter name or a spread token followed by further segments is never
\* registered: every registered route is well formed.
C8_MalformedPatternRejected ==
    \A i \in 1..Len(registeredRoutes) : WellFormedPattern(registeredRoutes[i].path)

\* C9: the scanner's classifier maps every route string to the class of its
\* tokens: simple without tokens, variableSegments with a spread token,
\* singleParam with exactly one single token, nested with two or more.
C9_ClassifierFollowsTokens ==
    call.op = "classify" => call.type = ClassOfTokens(call.routePattern)

\* C10: every entry of getRoutes() has the type of its own path's tokens,
\* whether it was registered by a scan or by addRoute.
C10_RegisteredTypeFollowsTokens ==
    \A i \in 1..Len(registeredRoutes) :
        registeredRoutes[i].type = ClassOfTokens(registeredRoutes[i].path)

-----------------------------------------------------------------------------
(* Properties of validateParameters *)

Absent(params, paramName) == paramName \notin DOMAIN params

\* the number of errors of one kind reported for one parameter
NumErrors(errors, paramName, type) ==
    Cardinality({k \in 1..Len(errors) :
                    errors[k].paramName = paramName /\ errors[k].type = type})

NumErrorsOfParam(errors, paramName) ==
    Cardinality({k \in 1..Len(errors) : errors[k].paramName = paramName})

ConfigIndex(validationConfig, paramName) ==
    CHOOSE i \in 1..Len(validationConfig) : validationConfig[i].name = paramName

\* whether a rule is violated as section 4.4 of the specification defines it:
\* a required value is absent, a string fails the pattern, or the predicate
\* returns false or raises
RuleViolated(params, paramName, rule) ==
    LET value == ValueOf(params, paramName) IN
    IF Absent(params, paramName) /\ rule.required # "false" THEN TRUE
    ELSE \/ /\ rule.pattern # "none"
            /\ value.t = "string"
            /\ ~PatternTest(rule.pattern, value.v)
         \/ /\ rule.validator # "none"
            /\ ApplyValidator(rule.validator, value) # "true"

\* C11: validateParameters evaluates every entry of the configuration and
\* returns all violations in one list in the configuration's order; an entry
\* has an error in the list exactly when its rule is violated, the list is
\* empty exactly when no rule is violated, and a parameter without a rule
\* has no error.
C11_AllViolationsCollected ==
    LET config == call.validationConfig
        errors == call.validated.errors
    IN call.op = "validate" =>
        /\ ~call.validated.throws
        /\ \A k \in 1..Len(errors) :
              \E i \in 1..Len(config) : config[i].name = errors[k].paramName
        /\ \A k, l \in 1..Len(errors) :
              k < l => ConfigIndex(config, errors[k].paramName)
                          <= ConfigIndex(config, errors[l].paramName)
        /\ \A i \in 1..Len(config) :
              RuleViolated(call.params, config[i].name, config[i].rule)
                  <=> NumErrorsOfParam(errors, config[i].name) > 0
        /\ (errors = <<>>) <=>
              \A i \in 1..Len(config) :
                  ~RuleViolated(call.params, config[i].name, config[i].rule)

\* C12: for an absent value whose rule is required (the default), exactly
\* one error is reported for the parameter, of kind required, and neither
\* the pattern check nor the predicate runs for it.
C12_RequiredOnlyWhenAbsent ==
    LET config == call.validationConfig IN
    call.op = "validate" =>
        \A i \in 1..Len(config) :
            (Absent(call.params, config[i].name) /\ config[i].rule.required # "false")
                => /\ NumErrorsOfParam(call.validated.errors, config[i].name) = 1
                   /\ NumErrors(call.validated.errors, config[i].name, "required") = 1
                   /\ \A k \in 1..Len(call.validated.checks) :
                         call.validated.checks[k].paramName # config[i].name

\* an absent required parameter whose rule declares a pattern and a raising
\* predicate, followed by another entry
C12_Witness ==
    /\ call.op = "validate"
    /\ Len(call.validationConfig) = 2
    /\ Absent(call.params, call.validationConfig[1].name)
    /\ call.validationConfig[1].rule =
          [pattern |-> "digits", validator |-> "throws", required |-> "unset"]
    /\ call.validated.errors[1] = ValidationErr(call.validationConfig[1].name, "required")

\* C13: for an absent value whose rule declares required false, no error of
\* kind required is reported for the parameter.
C13_OptionalAbsentNotRequired ==
    LET config == call.validationConfig IN
    call.op = "validate" =>
        \A i \in 1..Len(config) :
            (Absent(call.params, config[i].name) /\ config[i].rule.required = "false")
                => NumErrors(call.validated.errors, config[i].name, "required") = 0

\* C14: a declared pattern is tested only against a single string: a string
\* that does not match yields exactly one error of kind pattern for the
\* parameter, a string that matches yields none, and a sequence value is
\* never tested and yields none; {id: "abc"} against {id: {pattern: digits}}
\* yields exactly one error.
C14_PatternOnStringsOnly ==
    LET config == call.validationConfig
        errors == call.validated.errors
        checks == call.validated.checks
    IN call.op = "validate" =>
        /\ \A i \in 1..Len(config) :
              LET name == config[i].name
                  value == ValueOf(call.params, name)
                  tested == \E k \in 1..Len(checks) :
                               checks[k] = [paramName |-> name, check |-> "pattern"]
              IN /\ (config[i].rule.pattern # "none" /\ value.t = "string")
                       => /\ tested
                          /\ NumErrors(errors, name, "pattern") =
                                IF PatternTest(config[i].rule.pattern, value.v) THEN 0 ELSE 1
                 /\ (config[i].rule.pattern = "none" \/ value.t # "string")
                       => ~tested /\ NumErrors(errors, name, "pattern") = 0
        /\ (/\ call.params = (<<"i", "d">> :> StrVal(<<"a", "b", "c">>))
            /\ config = <<[name |-> <<"i", "d">>,
                           rule |-> [pattern |-> "digits", validator |-> "none",
                                     required |-> "unset"]]>>)
              => errors = <<ValidationErr(<<"i", "d">>, "pattern")>>

\* a sequence value under a rule with a pattern, next to a string that fails
\* its pattern
C14_Witness ==
    /\ call.op = "validate"
    /\ Len(call.validationConfig) = 2
    /\ \A i \in 1..2 : call.validationConfig[i].rule.pattern = "digits"
    /\ ValueOf(call.params, call.validationConfig[1].name).t = "array"
    /\ ValueOf(call.params, call.validationConfig[2].name) = StrVal(<<"a", "b", "c">>)
    /\ call.validated.errors = <<ValidationErr(call.validationConfig[2].name, "pattern")>>

\* C15: a predicate that returns false or raises yields exactly one error of
\* kind validator for its parameter; validateParameters does not raise, and
\* the entries after an entry whose predicate raised are still evaluated.
C15_PredicateFailureIsAnError ==
    LET config == call.validationConfig
        errors == call.validated.errors
        failing(i) ==
            /\ ~Absent(call.params, config[i].name)
            /\ config[i].rule.validator # "none"
            /\ ApplyValidator(config[i].rule.validator, call.params[config[i].name])
                  \in {"false", "throws"}
    IN call.op = "validate" =>
        /\ ~call.validated.throws
        /\ \A i \in 1..Len(config) :
              NumErrors(errors, config[i].name, "validator") = IF failing(i) THEN 1 ELSE 0
        /\ \A i, j \in 1..Len(config) :
              (/\ i < j
               /\ failing(i)
               /\ Absent(call.params, config[j].name))
                  => NumErrors(errors, config[j].name, "required") = 1

\* the first predicate raised and the second returned false
C15_Witness ==
    /\ call.op = "validate"
    /\ Len(call.validationConfig) = 2
    /\ \A i \in 1..2 : ~Absent(call.params, call.validationConfig[i].name)
    /\ call.validationConfig[1].rule.validator = "throws"
    /\ call.validationConfig[2].rule.validator = "minLength3"
    /\ call.validationConfig[1].rule.pattern = "none"
    /\ call.validationConfig[2].rule.pattern = "none"
    /\ ValueOf(call.params, call.validationConfig[2].name) = StrVal(<<"4", "2">>)
    /\ call.validated.errors =
          <<ValidationErr(call.validationConfig[1].name, "validator"),
            ValidationErr(call.validationConfig[2].name, "validator")>>

-----------------------------------------------------------------------------
(* Properties of decoding, dispatch and compilation *)

\* C16: when a segment of the path cannot be percent-decoded, matchesPattern
\* and extractParameters report a non-match (false, an empty mapping) for
\* the pattern and do not raise.
C16_UndecodableIsNonMatch ==
    (/\ call.op = "match"
     /\ WellFormedPattern(call.routePattern)
     /\ ~Decodable(call.urlPath))
        => /\ ~call.matches.throws
           /\ ~call.extracted.throws
           /\ ~call.matches.value
           /\ call.extracted.params = <<>>

\* whether a registered route accepts the request: its methods include the
\* method and its path matches, for the extractor or for the Hono app
RegisteredMatch(route, method, path) ==
    /\ \E j \in 1..Len(route.methods) : route.methods[j] = method
    /\ \/ MatchesFrom[route.path][path].value
       \/ HonoMatches[HonoMergePath(HonoPathOf[route.path])][path]

\* an initialize(), refresh() or rescan() has completed and none is running
Initialized ==
    /\ Quiet
    /\ \E t \in DOMAIN tasks : tasks[t].success

\* C17: a request that matches no registered route yields the not-found
\* outcome of the error handler (404, error 'Not Found', the requested
\* path) and runs no route handler; stated for a router whose
\* initialization has completed, where the 404 handler is installed.
C17_UnmatchedRequestIsNotFound ==
    (/\ Initialized
     /\ lastReq.served
     /\ \A i \in 1..Len(registeredRoutes) :
           ~RegisteredMatch(registeredRoutes[i], lastReq.method, lastReq.path))
        => /\ lastReq.outcome = "handle404"
           /\ lastReq.status = 404
           /\ ~lastReq.handlerRan

\* C18: serving a request compiles no route pattern: patterns are compiled
\* once, when the route is registered.
C18_NoCompilationPerRequest ==
    lastReq.served => lastReq.compilations = 0

\* C19: serving a request leaves the registered routes, the statistics, the
\* Hono app and the routes directory unchanged.
C19_ResolutionChangesNothing ==
    [][(\E path \in RequestPaths : Request("GET", path))
          => /\ registeredRoutes' = registeredRoutes
             /\ stats' = stats
             /\ app' = app
             /\ files' = files
             /\ routesDirectoryExists' = routesDirectoryExists
             /\ tasks' = tasks]_vars

\* a request was dispatched to a handler while routes and statistics exist
C19_Witness ==
    /\ lastReq.served
    /\ lastReq.handlerRan
    /\ registeredRoutes # <<>>
    /\ stats.totalRoutes > 0

-----------------------------------------------------------------------------
(* Properties of normalization, the handler's context and the registry *)

\* no repeated separator, no trailing separator, exactly one leading separator
NormalForm(s) ==
    /\ Len(s) >= 1
    /\ s[1] = "/"
    /\ \A i \in 1..(Len(s) - 1) : ~(s[i] = "/" /\ s[i + 1] = "/")
    /\ Len(s) > 1 => s[Len(s)] # "/"

\* C21: normalizePath applied to any route string gives a string with no
\* repeated separators, no trailing separator and exactly one leading
\* separator.
C21_NormalizedForm ==
    call.op = "normalize" =>
        NormalForm(call.normalized) /\ NormalForm(call.utilsNormalized)

\* C22: whenever a route handler is invoked, the context it receives has
\* the extracted parameters as c.params: c.params is set and binds every
\* parameter name of the route to the value extracted from the path.
C22_HandlerSeesParams ==
    lastReq.handlerRan =>
        /\ lastReq.context.params.set
        /\ lastReq.context.params.value = lastReq.params
        /\ \A k \in 1..Len(lastReq.routeInfo.parameters) :
              lastReq.routeInfo.parameters[k] \in DOMAIN lastReq.context.params.value

\* the last initialize(), refresh() or rescan() call made has completed with
\* success: true and no other is running
ScanCompleted ==
    /\ Quiet
    /\ tasks # <<>>
    /\ tasks[Len(tasks)].success

\* the directory listing the last completed scan read
LastScanned == tasks[Len(tasks)].present

UsersPath == <<"/", "a", "p", "i", "/", "u", "s", "e", "r", "s">>

\* C23: a file named index.ts in a directory is registered as the route for
\* that directory: once a scan that found api/users/index.ts has completed
\* (the file still being there), the registry lists a route /api/users that
\* comes from that file.
C23_IndexFileServesDirectory ==
    (ScanCompleted /\ IndexFile \in LastScanned /\ IndexFile \in files) =>
        \E i \in 1..Len(registeredRoutes) :
            /\ registeredRoutes[i].path = UsersPath
            /\ registeredRoutes[i].filePath = FileTable[IndexFile].relativePath

\* stats.routesByMethod[m], 0 when the object has no such key
CountedForMethod(m) ==
    IF m \in DOMAIN stats.routesByMethod THEN stats.routesByMethod[m] ELSE 0

\* C24: once a call of initialize, refresh, rescan, registerRoute, addRoute
\* or removeRoute has completed, successfully or not, and none is running,
\* the statistics agree with the registry: totalRoutes is the number of
\* routes getRoutes() lists, the routesByType counters add up to
\* totalRoutes, and routesByMethod[m] is the number of listed routes that
\* have method m.
C24_StatsAgreeWithRegistry ==
    Quiet =>
        /\ stats.totalRoutes = Len(registeredRoutes)
        /\ stats.routesByType.simple + stats.routesByType.singleParam
              + stats.routesByType.variableSegments + stats.routesByType.nested
              = stats.totalRoutes
        /\ \A k \in 1..Len(httpMethods) :
              CountedForMethod(httpMethods[k]) = CountMethod(registeredRoutes, httpMethods[k])

HasRouteOfFile(f) ==
    \E i \in 1..Len(registeredRoutes) :
        registeredRoutes[i].filePath = FileTable[f].relativePath

\* the files of the first scan that gave no handler: they export no
\* HTTP-method function, or loading them failed
WithoutHandler ==
    {f \in tasks[1].present \cap ValidFiles : FileTable[f].methods = {}}
        \cup tasks[1].unloaded

\* the first initialize()/refresh()/rescan() has completed, nothing else
\* has changed the registry, and its scan met a file that gave no handler
FirstScanMetBadFile ==
    /\ Quiet
    /\ Len(tasks) = 1
    /\ manual = 0
    /\ WithoutHandler # {}

\* C25: a scan that meets files which export no HTTP method, or which fail
\* to load, still returns success: true; those files contribute no route,
\* and every other route file of the scan is registered.
C25_BadFilesAreSkipped ==
    FirstScanMetBadFile =>
        /\ tasks[1].success
        /\ tasks[1].routesRegistered = Len(registeredRoutes)
        /\ \A f \in WithoutHandler : ~HasRouteOfFile(f)
        /\ \A f \in (tasks[1].present \cap ValidFiles) \ WithoutHandler : HasRouteOfFile(f)

EntriesOfFile(f) ==
    {i \in 1..Len(registeredRoutes) :
        registeredRoutes[i].filePath = FileTable[f].relativePath}

\* the route files of the last scan that gave a handler with a method
RouteFilesOfLastScan ==
    {f \in (LastScanned \cap ValidFiles) \ tasks[Len(tasks)].unloaded :
        FileTable[f].methods # {}}

\* only initialize(), refresh() and rescan() have been called, and each call
\* has completed with success: true
OnlySuccessfulScans ==
    /\ Quiet
    /\ tasks # <<>>
    /\ \A t \in DOMAIN tasks : tasks[t].success
    /\ manual = 0

\* C26: after any sequence of initialize, refresh and rescan calls that each
\* completed successfully, getRoutes() has exactly one entry for each route
\* file of the last scan and none for a file that scan did not find, and a
\* request is dispatched to a handler exactly when a listed route has its
\* method and matches its path.
C26_RegistryIsLastScan ==
    OnlySuccessfulScans =>
        /\ \A f \in RouteFilesOfLastScan : Cardinality(EntriesOfFile(f)) = 1
        /\ \A f \in FileIds \ LastScanned : EntriesOfFile(f) = {}
        /\ \A path \in RequestPaths :
              Resolve("GET", path).handlerRan
                  <=> \E i \in 1..Len(registeredRoutes) :
                         RegisteredMatch(registeredRoutes[i], "GET", path)

\* Router.hasRoute
hasRoute(path) == \E i \in 1..Len(registeredRoutes) : registeredRoutes[i].path = path

\* a request is answered by the handler of a route whose path is routePath
DispatchedToRoute(routePath) ==
    \E u \in RequestPaths :
        /\ Resolve("GET", u).handlerRan
        /\ Resolve("GET", u).routeInfo.path = routePath

\* C27: when removeRoute(p) returns true, afterwards hasRoute(p) is false
\* and no request is dispatched to the handler of a route with path p; when
\* no registered route has path p, removeRoute(p) leaves the registered
\* routes and the statistics as they were.
C27_RemovedRouteIsGone ==
    [][\A p \in ManualPaths :
          RemoveRoute(p) =>
              IF hasRoute(p)
              THEN (~hasRoute(p))' /\ (~DispatchedToRoute(p))'
              ELSE registeredRoutes' = registeredRoutes /\ stats' = stats]_vars

\* both refresh() calls have completed and the second was made while the
\* first was in progress
OverlappedRefreshesDone ==
    /\ Quiet
    /\ Len(tasks) = 2
    /\ tasks[1].kind = "refresh" /\ tasks[2].kind = "refresh"
    /\ tasks[2].overlapped

\* C28: when two refresh() calls overlap, once both have completed
\* getRoutes() contains each route file of the directory exactly once and
\* the statistics agree with it.
C28_OverlappingRefreshes ==
    OverlappedRefreshesDone =>
        /\ \A f \in RouteFilesOfLastScan : Cardinality(EntriesOfFile(f)) = 1
        /\ stats.totalRoutes = Len(registeredRoutes)
        /\ stats.totalFiles = Cardinality(LastScanned \cap ValidFiles)

\* C29: whenever the handler of a route is invoked, the mapping computed
\* for the request binds every parameter name of the route, and the
\* route's pattern matches the request path: a path for which
\* extractParameters returns the empty mapping of a non-match never
\* reaches the handler.
C29_HandlerOnlyOnMatch ==
    lastReq.handlerRan =>
        /\ MatchesFrom[lastReq.routeInfo.path][lastReq.path].value
        /\ \A k \in 1..Len(lastReq.routeInfo.parameters) :
              lastReq.routeInfo.parameters[k] \in DOMAIN lastReq.params

\* the request served last was given to a handler function that raised
HandlerRaised(req) ==
    /\ req.served
    /\ req.handlerRan
    /\ req.method \in req.handler.throwing

\* C30: when a route handler raises while handling a request, the response
\* is the internal-error response of the error handler (HTTP 500), the
\* exception does not leave the callback, and the registered routes and the
\* statistics are what they were before the request.
C30_RaisingHandlerGives500 ==
    [][\A path \in RequestPaths :
          (Request("GET", path) /\ HandlerRaised(lastReq')) =>
              /\ lastReq'.status = 500
              /\ lastReq'.outcome = "handleInternalError"
              /\ registeredRoutes' = registeredRoutes
              /\ stats' = stats]_vars

\* a request was answered 500 after its handler raised, with routes registered
C30_Witness ==
    /\ HandlerRaised(lastReq)
    /\ lastReq.status = 500
    /\ registeredRoutes # <<>>

====
